---- MODULE Spec2Model ----
(***************************************************************************)
(* Model of the zy-mcp client/server pair.                                 *)
(*   client.py : MCPClient.chat_loop / process_query and the two text      *)
(*               helpers extract_video_path / extract_text_question        *)
(*   server.py : the Tool Host operations video_inference_model and        *)
(*               video_binarization                                        *)
(* Text is a sequence of one-character strings, so the regular             *)
(* expressions of client.py are evaluated character by character.          *)
(***************************************************************************)
EXTENDS Integers, Sequences, FiniteSets, TLC

VARIABLES
    \* ---- text helpers (client.py 58-85) run on one query
    tQuery,      \* the query handed to the helpers
    tPath,       \* result of extract_video_path, Unset before the call
    tQuestion,   \* result of extract_text_question, Unset before the call
    tPc          \* "idle" | "run" | "done"

textVars == <<tQuery, tPath, tQuestion, tPc>>

VARIABLES
    \* ---- chat_loop / process_query (client.py 88-194)
    pc,            \* position of the client in chat_loop / process_query
    query,         \* chat_loop's query
    fileKind,      \* what the file named in the query is on disk
    messages,      \* process_query's conversation
    firstResp,     \* choices[0] of the first gateway response
    tool_args,     \* json.loads(tool_call.function.arguments)
    text_question, \* process_query local
    video_path,    \* process_query local
    threshold,     \* process_query local
    base_video,    \* process_query local
    video_result,  \* reply of the call at line 122 / 145
    result,        \* reply of the call at line 160
    response,      \* what process_query returned
    toolCalls,     \* history: the session.call_tool requests of this query
    toolReplies,   \* history: the replies received to them
    gatewayCalls,  \* history: the chat.completions.create requests of this query
    diagLines,     \* history: diagnostic lines printed for this query
    attempts,      \* history: process_query invocations for this query
    errAt,         \* history: the step that raised, "" when none did
    outcome,       \* history: "none" | "answer" | "error" for this query
    prevOutcome    \* history: outcome of the query before this one

clientVars == <<pc, query, fileKind, messages, firstResp, tool_args,
                text_question, video_path, threshold, base_video,
                video_result, result, response, toolCalls, toolReplies,
                gatewayCalls, diagLines, attempts, errAt, outcome,
                prevOutcome>>

VARIABLES
    \* ---- Tool Host operations (server.py 34-127)
    hPc,         \* position inside the operation
    hOp,         \* "video_inference_model" | "video_binarization"
    hVideo,      \* the file: [openable, fps, width, height, frames]
    hThreshold,  \* the threshold argument
    cap,         \* "none" | "open" | "released"
    hRead,       \* frames read so far
    hFrame,      \* the frame just read
    color_analysis,      \* video_inference_model: per-frame channel sums
    white_pixel_counts,  \* binary_stats["white_pixel_counts"]
    black_pixel_counts,  \* binary_stats["black_pixel_counts"]
    frame_brightness,    \* binary_stats["frame_brightness"], as sums
    hExit        \* "running" | "returned_error" | "returned" | "raised"

hostVars == <<hPc, hOp, hVideo, hThreshold, cap, hRead, hFrame,
              color_analysis, white_pixel_counts, black_pixel_counts,
              frame_brightness, hExit>>

vars == <<textVars, clientVars, hostVars>>

-----------------------------------------------------------------------------
(* Bounds *)

\* longest raw input line, counted in segments of InputSegments
MaxSegs == 5

-----------------------------------------------------------------------------
(* Characters and strings *)

UpperSeq == <<"A","B","C","D","E","F","G","H","I","J","K","L","M",
              "N","O","P","Q","R","S","T","U","V","W","X","Y","Z">>
LowerSeq == <<"a","b","c","d","e","f","g","h","i","j","k","l","m",
              "n","o","p","q","r","s","t","u","v","w","x","y","z">>

Range(f) == { f[i] : i \in DOMAIN f }

\* str.lower() on one character
Lower(c) ==
    IF \E i \in 1..26 : UpperSeq[i] = c
    THEN LowerSeq[CHOOSE i \in 1..26 : UpperSeq[i] = c]
    ELSE c

LowerStr(s) == [i \in 1..Len(s) |-> Lower(s[i])]

\* [a-zA-Z]
IsLetter(c) == c \in Range(UpperSeq) \cup Range(LowerSeq)

Whitespace == {" ", "\t", "\n", "\r"}

\* Python's None, as a value comparable with text
NoneVal == <<"None">>
\* a result slot not yet written
Unset == <<"unset">>

RECURSIVE LStrip(_)
LStrip(s) ==
    IF s # <<>> /\ Head(s) \in Whitespace THEN LStrip(Tail(s)) ELSE s

RECURSIVE RStrip(_)
RStrip(s) ==
    IF s # <<>> /\ s[Len(s)] \in Whitespace
    THEN RStrip(SubSeq(s, 1, Len(s) - 1)) ELSE s

\* str.strip()
Strip(s) == RStrip(LStrip(s))

SetMax(S) == CHOOSE x \in S : \A y \in S : y <= x
SetMin(S) == CHOOSE x \in S : \A y \in S : x <= y

-----------------------------------------------------------------------------
(* The regular expressions of client.py *)

\* (?:mp4|avi|mov|mkv|flv)
VideoExts == { <<"m","p","4">>, <<"a","v","i">>, <<"m","o","v">>,
               <<"m","k","v">>, <<"f","l","v">> }

\* [^<>:"|?*\n\r]
StrictClass(c) == c \notin {"<", ">", ":", "\"", "|", "?", "*", "\n", "\r"}

\* . without re.DOTALL
DotClass(c) == c # "\n"

\* \.(?:mp4|avi|mov|mkv|flv) matched at s[i..i+3]; ic is re.IGNORECASE
ExtAt(s, i, ic) ==
    /\ i >= 1
    /\ i + 3 <= Len(s)
    /\ s[i] = "."
    /\ LET e == <<s[i+1], s[i+2], s[i+3]>>
       IN  (IF ic THEN LowerStr(e) ELSE e) \in VideoExts

\* last index of every match of the strict pattern that starts at i
StrictEnds(s, i, ic) ==
    { e \in (i + 6)..Len(s) :
        /\ IsLetter(s[i])
        /\ s[i+1] = ":"
        /\ s[i+2] \in {"\\", "/"}
        /\ \A k \in (i + 3)..(e - 4) : StrictClass(s[k])
        /\ ExtAt(s, e - 3, ic) }

\* last index of every match of the simple pattern that starts at i
SimpleEnds(s, i, ic) ==
    { e \in (i + 6)..Len(s) :
        /\ IsLetter(s[i])
        /\ s[i+1] = ":"
        /\ s[i+2] = "\\"
        /\ \A k \in (i + 3)..(e - 4) : DotClass(s[k])
        /\ ExtAt(s, e - 3, ic) }

NoMatch == [start |-> 0, end |-> 0]

\* re.search of the strict pattern from position pos: leftmost start, and the
\* greedy * takes the longest body
StrictSearch(s, pos, ic) ==
    LET starts == { i \in pos..Len(s) : StrictEnds(s, i, ic) # {} }
    IN  IF starts = {} THEN NoMatch
        ELSE LET i == SetMin(starts)
             IN  [start |-> i, end |-> SetMax(StrictEnds(s, i, ic))]

\* re.search of the simple pattern: leftmost start, and the lazy *? takes the
\* shortest body
SimpleSearch(s, pos, ic) ==
    LET starts == { i \in pos..Len(s) : SimpleEnds(s, i, ic) # {} }
    IN  IF starts = {} THEN NoMatch
        ELSE LET i == SetMin(starts)
             IN  [start |-> i, end |-> SetMin(SimpleEnds(s, i, ic))]

\* re.sub(strict pattern, '', s): every non-overlapping match, left to right
RECURSIVE StrictSubFrom(_, _, _)
StrictSubFrom(s, pos, ic) ==
    LET m == StrictSearch(s, pos, ic)
    IN  IF m = NoMatch THEN SubSeq(s, pos, Len(s))
        ELSE SubSeq(s, pos, m.start - 1) \o StrictSubFrom(s, m.end + 1, ic)

StrictSub(s, ic) == StrictSubFrom(s, 1, ic)

-----------------------------------------------------------------------------
(* client.py: the two extraction helpers *)

\* the fixed default question of extract_text_question, kept as one token
DefaultQuestion == <<"DEFAULT_QUESTION">>

\* both searches pass re.IGNORECASE
extract_video_path(q) ==
    LET m1 == StrictSearch(q, 1, TRUE)
        m2 == SimpleSearch(q, 1, TRUE)
    IN  IF m1 # NoMatch THEN SubSeq(q, m1.start, m1.end)
        ELSE IF m2 # NoMatch THEN SubSeq(q, m2.start, m2.end)
        ELSE NoneVal

\* line 76 computes the question with re.IGNORECASE, line 79 overwrites it
\* with the result of the same substitution without the flag
extract_text_question(q) ==
    LET first  == Strip(StrictSub(q, TRUE))
        second == Strip(StrictSub(q, FALSE))
        stripped == second
    IN  IF stripped = <<>> THEN DefaultQuestion ELSE stripped

-----------------------------------------------------------------------------
(* Inputs of the text helpers *)

InputSegments ==
    { <<"C", ":", "\\">>, <<"a">>, <<" ">>, <<"?">>,
      <<".", "m", "p", "4">>, <<".", "M", "P", "4">> }

RECURSIVE SegStrings(_)
SegStrings(n) ==
    IF n = 0 THEN { <<>> }
    ELSE LET shorter == SegStrings(n - 1)
         IN  shorter \cup { s \o g : s \in shorter, g \in InputSegments }

RawInputs == SegStrings(MaxSegs)

\* chat_loop line 186: the query is the stripped input line
TextRead ==
    /\ tPc = "idle"
    /\ \E raw \in RawInputs : tQuery' = Strip(raw)
    /\ tPc' = "run"
    /\ UNCHANGED <<tPath, tQuestion, clientVars, hostVars>>

\* process_query line 117 / 139
TextQuestion ==
    /\ tPc = "run"
    /\ tQuestion = Unset
    /\ tQuestion' = extract_text_question(tQuery)
    /\ UNCHANGED <<tQuery, tPath, tPc, clientVars, hostVars>>

\* process_query line 118 / 140
TextPath ==
    /\ tPc = "run"
    /\ tQuestion # Unset
    /\ tPath' = extract_video_path(tQuery)
    /\ tPc' = "done"
    /\ UNCHANGED <<tQuery, tQuestion, clientVars, hostVars>>


TextNext == TextRead \/ TextQuestion \/ TextPath

-----------------------------------------------------------------------------
(* client.py: values exchanged with the Model Gateway and the Tool Host *)

\* threshold = tool_args.get("threshold", 127)
DefaultThreshold == 127

PublishedTools == {"inference_video", "process_video_binarization"}

\* a tool name the gateway may answer with that the dispatch does not know
ToolNames == PublishedTools \cup {"other_tool"}

\* a path the model may put in its arguments
ModelPath == <<"D", ":", "\\", "m", ".", "m", "p", "4">>

\* tool_call.function.arguments: JSON texts, the last one cut short
ArgumentTexts == {"{}", "{threshold: 200}", "{path: D:\\m.mp4}", "{threshold: "}

NoArgs == [keys |-> {}, path |-> <<>>, threshold |-> 0]

\* json.loads on the argument text: ok = FALSE stands for JSONDecodeError
json_loads(text) ==
    CASE text = "{}" -> [ok |-> TRUE, value |-> NoArgs]
      [] text = "{threshold: 200}" ->
            [ok |-> TRUE,
             value |-> [keys |-> {"threshold"}, path |-> <<>>, threshold |-> 200]]
      [] text = "{path: D:\\m.mp4}" ->
            [ok |-> TRUE,
             value |-> [keys |-> {"path"}, path |-> ModelPath, threshold |-> 0]]
      [] OTHER -> [ok |-> FALSE, value |-> NoArgs]

NoResp == [finish_reason |-> "", content |-> "", tool_calls |-> <<>>]

SecondCall == [id |-> "call_2", name |-> "other_tool", arguments |-> "{}"]

FirstCalls == [id : {"call_1"}, name : ToolNames, arguments : ArgumentTexts]

\* choices[0] of the first completion; a gateway may also end with "stop"
\* while it names a tool call
FirstResponses ==
    { [finish_reason |-> f, content |-> "direct answer", tool_calls |-> <<>>]
        : f \in {"stop", "length"} }
    \cup
    { [finish_reason |-> "stop", content |-> "direct answer", tool_calls |-> <<tc>>]
        : tc \in FirstCalls }
    \cup
    { [finish_reason |-> "tool_calls", content |-> "", tool_calls |-> tcs]
        : tcs \in { <<tc>> : tc \in FirstCalls }
                  \cup { <<tc, SecondCall>> : tc \in FirstCalls } }

\* mutant: the branch looks at the tool calls instead of the finish reason
ToolSelectedByCalls(resp) == resp.tool_calls # <<>>

\* line 110
ToolSelected(resp) == resp.finish_reason = "tool_calls"

\* mutant: the last tool call is taken instead of the first
LastToolCall(resp) == resp.tool_calls[Len(resp.tool_calls)]

\* line 111: content.message.tool_calls[0]
FirstToolCall(resp) == resp.tool_calls[1]

tool_name == FirstToolCall(firstResp).name

FileKinds == {"missing", "not_video", "video"}

\* mutant: a null path is let through instead of raising
encode_image_lenient(image_path, kind) ==
    IF image_path # NoneVal /\ kind = "missing"
    THEN [ok |-> FALSE, data |-> <<>>]
    ELSE [ok |-> TRUE, data |-> <<"base64">> \o image_path]

\* encode_image: open(None) raises TypeError, a missing file FileNotFoundError
encode_image(image_path, kind) ==
    IF image_path = NoneVal \/ kind = "missing"
    THEN [ok |-> FALSE, data |-> <<>>]
    ELSE [ok |-> TRUE, data |-> <<"base64">> \o image_path]

NoReply == [isError |-> FALSE, content |-> <<>>]

StatsJson(name) ==
    IF name = "inference_video" THEN "inference stats json"
    ELSE "binarization stats json"

ErrorJson == "error json"

\* the file a path names: the query's own file, or nothing
FileKindOf(path) ==
    IF path = extract_video_path(query) THEN fileKind ELSE "missing"

\* the replies session.call_tool can deliver for a request
HostReplies(req) ==
    { NoReply } \cup
    IF req.name \notin PublishedTools
    THEN { [isError |-> TRUE, content |-> <<"Unknown tool">>] }
    ELSE IF "path" \notin req.args.keys \/ req.args.path = NoneVal
    THEN { [isError |-> TRUE, content |-> <<"validation error">>] }
    ELSE IF FileKindOf(req.args.path) = "video"
    THEN { [isError |-> FALSE, content |-> <<StatsJson(req.name)>>],
           [isError |-> TRUE, content |-> <<"Error executing tool">>] }
    ELSE { [isError |-> FALSE, content |-> <<ErrorJson>>] }

NoParams == [fps |-> "None", duration |-> "None", frame_count |-> "None",
             resolution |-> "None", error |-> FALSE]

\* json.loads on the first content item, then the .get lookups on it
json_loads_reply(text) ==
    CASE text = "inference stats json" ->
            [ok |-> TRUE,
             value |-> [fps |-> "30.0", duration |-> "10.0", frame_count |-> "300",
                        resolution |-> "None", error |-> FALSE]]
      [] text = "binarization stats json" ->
            [ok |-> TRUE,
             value |-> [fps |-> "30.0", duration |-> "10.0", frame_count |-> "300",
                        resolution |-> "1920x1080", error |-> FALSE]]
      [] text = ErrorJson ->
            [ok |-> TRUE, value |-> [NoParams EXCEPT !.error = TRUE]]
      [] OTHER -> [ok |-> FALSE, value |-> NoParams]

NoSummary == [fps |-> "", duration |-> "", frame_count |-> "", resolution |-> ""]

\* video_info (line 124) / binary_info (line 147)
Summary(name, params) ==
    [fps |-> params.fps, duration |-> params.duration,
     frame_count |-> params.frame_count,
     resolution |-> IF name = "process_video_binarization"
                    THEN params.resolution ELSE ""]

BlankTurn == [role |-> "", query |-> <<>>, media |-> <<>>, question |-> <<>>,
              summary |-> NoSummary, tool_calls |-> <<>>, text |-> "",
              tool_call_id |-> ""]

\* lines 89-92
UserTurn(q) == [BlankTurn EXCEPT !.role = "user", !.query = q]

\* lines 127-136 / 149-158
EnrichedTurn(media, question, summary) ==
    [BlankTurn EXCEPT !.role = "user", !.media = media, !.question = question,
                      !.summary = summary]

\* line 164: content.message.model_dump()
AssistantTurn(resp) ==
    [BlankTurn EXCEPT !.role = "assistant", !.text = resp.content,
                      !.tool_calls = resp.tool_calls]

\* lines 165-169
ToolTurn(text, id) ==
    [BlankTurn EXCEPT !.role = "tool", !.text = text, !.tool_call_id = id]

\* the arguments of the call at line 122 / 145
VideoArgs ==
    IF tool_name = "inference_video"
    THEN [keys |-> {"path"}, path |-> video_path, threshold |-> 0]
    ELSE [keys |-> {"path", "threshold"}, path |-> video_path,
          threshold |-> threshold]

-----------------------------------------------------------------------------
(* client.py: chat_loop and process_query, one action per step *)

ClientInputs ==
    { <<"h", "i">>,
      <<" ", "C", ":", "\\", "a", ".", "m", "p", "4", " ">>,
      <<"g", "o", " ", "D", ":", "\\", "m", ".", "m", "p", "4">>,
      <<"Q", "u", "i", "t">> }

\* an exception leaves process_query for chat_loop's handler
Raise(step) ==
    /\ pc' = "except"
    /\ errAt' = step

\* chat_loop lines 186-188; the locals of the last process_query are gone,
\* only its conversation is kept so that a carry-over would show
ReadQuery ==
    /\ pc = "input"
    /\ \E raw \in ClientInputs, fk \in FileKinds :
          /\ query' = Strip(raw)
          /\ fileKind' = fk
    /\ pc' = IF LowerStr(query') = <<"q", "u", "i", "t">>
             THEN "exit" ELSE "process_query"
    /\ prevOutcome' = outcome
    /\ outcome' = "none"
    /\ firstResp' = NoResp
    /\ tool_args' = NoArgs
    /\ text_question' = Unset
    /\ video_path' = Unset
    /\ threshold' = -1
    /\ base_video' = Unset
    /\ video_result' = NoReply
    /\ result' = NoReply
    /\ response' = ""
    /\ toolCalls' = <<>>
    /\ toolReplies' = <<>>
    /\ gatewayCalls' = <<>>
    /\ diagLines' = 0
    /\ attempts' = 0
    /\ errAt' = ""
    /\ UNCHANGED <<messages, textVars, hostVars>>

\* mutant: the conversation is kept on the client and the new turn appended
ProcessQueryStartCarry ==
    /\ pc = "process_query"
    /\ messages' = Append(messages, UserTurn(query))
    /\ attempts' = attempts + 1
    /\ pc' = "list_tools"
    /\ UNCHANGED <<query, fileKind, firstResp, tool_args, text_question,
                   video_path, threshold, base_video, video_result, result,
                   response, toolCalls, toolReplies, gatewayCalls, diagLines,
                   errAt, outcome, prevOutcome, textVars, hostVars>>

\* process_query lines 88-92
ProcessQueryStart ==
    /\ pc = "process_query"
    /\ messages' = <<UserTurn(query)>>
    /\ attempts' = attempts + 1
    /\ pc' = "list_tools"
    /\ UNCHANGED <<query, fileKind, firstResp, tool_args, text_question,
                   video_path, threshold, base_video, video_result, result,
                   response, toolCalls, toolReplies, gatewayCalls, diagLines,
                   errAt, outcome, prevOutcome, textVars, hostVars>>

\* lines 93-102: session.list_tools() answers or the channel fails
ListTools ==
    /\ pc = "list_tools"
    /\ \/ pc' = "gateway1" /\ UNCHANGED errAt
       \/ Raise("list_tools")
    /\ UNCHANGED <<query, fileKind, messages, firstResp, tool_args,
                   text_question, video_path, threshold, base_video,
                   video_result, result, response, toolCalls, toolReplies,
                   gatewayCalls, diagLines, attempts, outcome, prevOutcome,
                   textVars, hostVars>>

\* lines 103-109: the first completion, with the tool manifest
Gateway1 ==
    /\ pc = "gateway1"
    /\ gatewayCalls' = Append(gatewayCalls, [messages |-> messages, tools |-> TRUE])
    /\ \/ /\ \E r \in FirstResponses : firstResp' = r
          /\ pc' = "branch"
          /\ UNCHANGED errAt
       \/ /\ Raise("gateway1")
          /\ UNCHANGED firstResp
    /\ UNCHANGED <<query, fileKind, messages, tool_args, text_question,
                   video_path, threshold, base_video, video_result, result,
                   response, toolCalls, toolReplies, diagLines, attempts,
                   outcome, prevOutcome, textVars, hostVars>>

\* lines 110-113 and 177
Branch ==
    /\ pc = "branch"
    /\ IF ToolSelected(firstResp)
       THEN LET parsed == json_loads(FirstToolCall(firstResp).arguments)
            IN  IF parsed.ok
                THEN /\ tool_args' = parsed.value
                     /\ pc' = "dispatch"
                     /\ UNCHANGED <<errAt, response>>
                ELSE /\ Raise("json.loads")
                     /\ UNCHANGED <<tool_args, response>>
       ELSE /\ response' = firstResp.content
            /\ pc' = "return"
            /\ UNCHANGED <<tool_args, errAt>>
    /\ UNCHANGED <<query, fileKind, messages, firstResp, text_question,
                   video_path, threshold, base_video, video_result, result,
                   toolCalls, toolReplies, gatewayCalls, diagLines, attempts,
                   outcome, prevOutcome, textVars, hostVars>>

\* lines 115-119 and 138-142
Dispatch ==
    /\ pc = "dispatch"
    /\ IF tool_name \in PublishedTools
       THEN /\ text_question' = extract_text_question(query)
            /\ video_path' = extract_video_path(query)
            /\ threshold' = IF tool_name = "process_video_binarization"
                            THEN IF "threshold" \in tool_args.keys
                                 THEN tool_args.threshold
                                 ELSE DefaultThreshold
                            ELSE threshold
            /\ LET enc == encode_image(video_path', fileKind)
               IN  IF enc.ok
                   THEN /\ base_video' = enc.data
                        /\ pc' = "call_video_tool"
                        /\ UNCHANGED errAt
                   ELSE /\ Raise("encode_image")
                        /\ UNCHANGED base_video
       ELSE /\ pc' = "call_tool"
            /\ UNCHANGED <<text_question, video_path, threshold, base_video, errAt>>
    /\ UNCHANGED <<query, fileKind, messages, firstResp, tool_args,
                   video_result, result, response, toolCalls, toolReplies,
                   gatewayCalls, diagLines, attempts, outcome, prevOutcome,
                   textVars, hostVars>>

\* line 122 / 145
VideoCall ==
    /\ pc = "call_video_tool"
    /\ LET req == [name |-> tool_name, args |-> VideoArgs]
       IN  /\ toolCalls' = Append(toolCalls, req)
           /\ \/ \E rep \in HostReplies(req) :
                    /\ video_result' = rep
                    /\ toolReplies' = Append(toolReplies, rep)
                    /\ pc' = "summarise"
                    /\ UNCHANGED errAt
              \/ /\ Raise("call_tool")
                 /\ UNCHANGED <<video_result, toolReplies>>
    /\ UNCHANGED <<query, fileKind, messages, firstResp, tool_args,
                   text_question, video_path, threshold, base_video, result,
                   response, gatewayCalls, diagLines, attempts, outcome,
                   prevOutcome, textVars, hostVars>>

\* lines 123-136 / 146-158
Summarise ==
    /\ pc = "summarise"
    /\ LET parsed == IF video_result.content # <<>>
                     THEN json_loads_reply(video_result.content[1])
                     ELSE [ok |-> TRUE, value |-> NoParams]
       IN  IF parsed.ok
           THEN /\ messages' = Append(messages,
                       EnrichedTurn(base_video, text_question,
                                    Summary(tool_name, parsed.value)))
                /\ pc' = "call_tool"
                /\ UNCHANGED errAt
           ELSE /\ Raise("json.loads(reply)")
                /\ UNCHANGED messages
    /\ UNCHANGED <<query, fileKind, firstResp, tool_args, text_question,
                   video_path, threshold, base_video, video_result, result,
                   response, toolCalls, toolReplies, gatewayCalls, diagLines,
                   attempts, outcome, prevOutcome, textVars, hostVars>>

\* line 160
GenericCall ==
    /\ pc = "call_tool"
    /\ LET req == [name |-> tool_name, args |-> tool_args]
       IN  /\ toolCalls' = Append(toolCalls, req)
           /\ \/ \E rep \in HostReplies(req) :
                    /\ result' = rep
                    /\ toolReplies' = Append(toolReplies, rep)
                    /\ pc' = "append_turns"
                    /\ UNCHANGED errAt
              \/ /\ Raise("call_tool")
                 /\ UNCHANGED <<result, toolReplies>>
    /\ UNCHANGED <<query, fileKind, messages, firstResp, tool_args,
                   text_question, video_path, threshold, base_video,
                   video_result, response, gatewayCalls, diagLines, attempts,
                   outcome, prevOutcome, textVars, hostVars>>

\* lines 164-169: the assistant turn is appended before result.content[0]
\* is evaluated, which raises IndexError on an empty content list
AppendTurns ==
    /\ pc = "append_turns"
    /\ IF result.content = <<>>
       THEN /\ messages' = Append(messages, AssistantTurn(firstResp))
            /\ Raise("result.content[0]")
       ELSE /\ messages' = messages \o
                   << AssistantTurn(firstResp),
                      ToolTurn(result.content[1], FirstToolCall(firstResp).id) >>
            /\ pc' = "gateway2"
            /\ UNCHANGED errAt
    /\ UNCHANGED <<query, fileKind, firstResp, tool_args, text_question,
                   video_path, threshold, base_video, video_result, result,
                   response, toolCalls, toolReplies, gatewayCalls, diagLines,
                   attempts, outcome, prevOutcome, textVars, hostVars>>

\* lines 171-175: the second completion, without the tool manifest
Gateway2 ==
    /\ pc = "gateway2"
    /\ gatewayCalls' = Append(gatewayCalls, [messages |-> messages, tools |-> FALSE])
    /\ \/ /\ response' = "final answer"
          /\ pc' = "return"
          /\ UNCHANGED errAt
       \/ /\ Raise("gateway2")
          /\ UNCHANGED response
    /\ UNCHANGED <<query, fileKind, messages, firstResp, tool_args,
                   text_question, video_path, threshold, base_video,
                   video_result, result, toolCalls, toolReplies, diagLines,
                   attempts, outcome, prevOutcome, textVars, hostVars>>

\* chat_loop line 191
PrintResponse ==
    /\ pc = "return"
    /\ outcome' = "answer"
    /\ pc' = "input"
    /\ UNCHANGED <<query, fileKind, messages, firstResp, tool_args,
                   text_question, video_path, threshold, base_video,
                   video_result, result, response, toolCalls, toolReplies,
                   gatewayCalls, diagLines, attempts, errAt, prevOutcome,
                   textVars, hostVars>>

\* chat_loop lines 193-194
HandleException ==
    /\ pc = "except"
    /\ diagLines' = diagLines + 1
    /\ outcome' = "error"
    /\ pc' = "input"
    /\ UNCHANGED <<query, fileKind, messages, firstResp, tool_args,
                   text_question, video_path, threshold, base_video,
                   video_result, result, response, toolCalls, toolReplies,
                   gatewayCalls, attempts, errAt, prevOutcome, textVars,
                   hostVars>>

ClientNext ==
    \/ ReadQuery
    \/ ProcessQueryStart
    \/ ListTools
    \/ Gateway1
    \/ Branch
    \/ Dispatch
    \/ VideoCall
    \/ Summarise
    \/ GenericCall
    \/ AppendTurns
    \/ Gateway2
    \/ PrintResponse
    \/ HandleException

-----------------------------------------------------------------------------
(* server.py: the Tool Host operations *)

\* most frames a video file of the model holds
MaxFrames == 2

\* a pixel is <<B, G, R>>
PixelValues == { <<0, 0, 0>>, <<0, 0, 255>>, <<255, 255, 255>> }

\* pixels per frame (width x height) of the files of the model
FrameShapes == { <<1, 1>>, <<2, 1>> }

\* 76 is the luminance of a pure red pixel
ThresholdValues == {0, 76, 127, 255}

FramesOf(shape) == [1..(shape[1] * shape[2]) -> PixelValues]

NoVideo == [openable |-> FALSE, fps |-> 0, width |-> 0, height |-> 0,
            frame_count |-> 0, frames |-> <<>>]

\* the files an operation may be pointed at; frame_count is what the
\* container announces, frames what cap.read() can deliver before it fails
VideosOfShape(sh) ==
    { [openable |-> TRUE, fps |-> f, width |-> sh[1], height |-> sh[2],
       frame_count |-> Len(fr) + extra, frames |-> fr]
        : f \in {0, 30}, extra \in {0, 1},
          fr \in UNION { [1..n -> FramesOf(sh)] : n \in 0..MaxFrames } }

Videos == { NoVideo } \cup UNION { VideosOfShape(sh) : sh \in FrameShapes }

\* cv2.cvtColor(frame, COLOR_BGR2GRAY) on one 8-bit pixel
Gray(px) == (px[1] * 1868 + px[2] * 9617 + px[3] * 4899 + 8192) \div 16384

\* mutant: the comparison includes the threshold itself
ThreshBinaryInclusive(g, thresh, maxval) == IF g >= thresh THEN maxval ELSE 0

\* cv2.threshold(gray, thresh, maxval, THRESH_BINARY) on one pixel
ThreshBinary(g, thresh, maxval) == IF g > thresh THEN maxval ELSE 0

\* np.sum(binary_frame == v)
CountEq(binary_frame, v) ==
    Cardinality({ i \in DOMAIN binary_frame : binary_frame[i] = v })

RECURSIVE SumSeq(_)
SumSeq(xs) == IF xs = <<>> THEN 0 ELSE Head(xs) + SumSeq(Tail(xs))

\* video_inference_model / video_binarization are entered with their arguments
HostCall ==
    /\ hPc = "idle"
    /\ \E op \in {"video_inference_model", "video_binarization"}, v \in Videos :
          /\ hOp' = op
          /\ hVideo' = v
          /\ hThreshold' \in (IF op = "video_binarization"
                              THEN ThresholdValues ELSE {DefaultThreshold})
    /\ hPc' = "open"
    /\ UNCHANGED <<cap, hRead, hFrame, color_analysis, white_pixel_counts,
                   black_pixel_counts, frame_brightness, hExit, textVars,
                   clientVars>>

\* lines 41-43 / 77-79
HostOpen ==
    /\ hPc = "open"
    /\ IF hVideo.openable
       THEN /\ cap' = "open"
            /\ hPc' = "metadata"
            /\ UNCHANGED hExit
       ELSE /\ hExit' = "returned_error"
            /\ hPc' = "done"
            /\ UNCHANGED cap
    /\ UNCHANGED <<hOp, hVideo, hThreshold, hRead, hFrame, color_analysis,
                   white_pixel_counts, black_pixel_counts, frame_brightness,
                   textVars, clientVars>>

\* lines 46-48 / 81-85: frame_count / fps raises ZeroDivisionError when the
\* container reports fps 0, and these lines stand before the try
HostMetadata ==
    /\ hPc = "metadata"
    /\ IF hVideo.fps = 0
       THEN /\ hExit' = "raised"
            /\ hPc' = "done"
       ELSE /\ hPc' = "loop"
            /\ UNCHANGED hExit
    /\ UNCHANGED <<hOp, hVideo, hThreshold, cap, hRead, hFrame, color_analysis,
                   white_pixel_counts, black_pixel_counts, frame_brightness,
                   textVars, clientVars>>

\* lines 55-57 / 95-97, and the finally clause when the loop is left
HostRead ==
    /\ hPc = "loop"
    /\ IF hRead < Len(hVideo.frames)
       THEN /\ hFrame' = hVideo.frames[hRead + 1]
            /\ hRead' = hRead + 1
            /\ hPc' = "process"
            /\ UNCHANGED cap
       ELSE /\ cap' = "released"
            /\ hPc' = "return"
            /\ UNCHANGED <<hFrame, hRead>>
    /\ UNCHANGED <<hOp, hVideo, hThreshold, color_analysis, white_pixel_counts,
                   black_pixel_counts, frame_brightness, hExit, textVars,
                   clientVars>>

\* lines 59-60
InferenceFrame ==
    /\ hPc = "process"
    /\ hOp = "video_inference_model"
    /\ color_analysis' = Append(color_analysis,
          [c \in 1..3 |-> SumSeq([i \in DOMAIN hFrame |-> hFrame[i][c]])])
    /\ hPc' = "loop"
    /\ UNCHANGED <<hOp, hVideo, hThreshold, cap, hRead, hFrame,
                   white_pixel_counts, black_pixel_counts, frame_brightness,
                   hExit, textVars, clientVars>>

\* lines 99-114
BinarizeFrame ==
    /\ hPc = "process"
    /\ hOp = "video_binarization"
    /\ LET gray_frame == [i \in DOMAIN hFrame |-> Gray(hFrame[i])]
           binary_frame == [i \in DOMAIN hFrame |->
                               ThreshBinary(gray_frame[i], hThreshold, 255)]
           white_pixels == CountEq(binary_frame, 255)
           black_pixels == CountEq(binary_frame, 0)
       IN  /\ white_pixel_counts' = Append(white_pixel_counts, white_pixels)
           /\ black_pixel_counts' = Append(black_pixel_counts, black_pixels)
           /\ frame_brightness' = Append(frame_brightness, SumSeq(gray_frame))
    /\ hPc' = "loop"
    /\ UNCHANGED <<hOp, hVideo, hThreshold, cap, hRead, hFrame, color_analysis,
                   hExit, textVars, clientVars>>

\* an exception raised inside the try (numpy / OpenCV running out of memory on
\* a frame): the finally clause runs, then the exception leaves the operation
HostFrameRaises ==
    /\ hPc = "process"
    /\ cap' = "released"
    /\ hExit' = "raised"
    /\ hPc' = "done"
    /\ UNCHANGED <<hOp, hVideo, hThreshold, hRead, hFrame, color_analysis,
                   white_pixel_counts, black_pixel_counts, frame_brightness,
                   textVars, clientVars>>

\* lines 64-69 / 119-127
HostReturn ==
    /\ hPc = "return"
    /\ hExit' = "returned"
    /\ hPc' = "done"
    /\ UNCHANGED <<hOp, hVideo, hThreshold, cap, hRead, hFrame, color_analysis,
                   white_pixel_counts, black_pixel_counts, frame_brightness,
                   textVars, clientVars>>

HostNext ==
    \/ HostCall
    \/ HostOpen
    \/ HostMetadata
    \/ HostRead
    \/ InferenceFrame
    \/ BinarizeFrame
    \/ HostFrameRaises
    \/ HostReturn

-----------------------------------------------------------------------------
(* Specifications *)

Init ==
    /\ tQuery = <<>>
    /\ tPath = Unset
    /\ tQuestion = Unset
    /\ tPc = "idle"
    /\ pc = "input"
    /\ query = <<>>
    /\ fileKind = "missing"
    /\ messages = <<>>
    /\ firstResp = NoResp
    /\ tool_args = NoArgs
    /\ text_question = Unset
    /\ video_path = Unset
    /\ threshold = -1
    /\ base_video = Unset
    /\ video_result = NoReply
    /\ result = NoReply
    /\ response = ""
    /\ toolCalls = <<>>
    /\ toolReplies = <<>>
    /\ gatewayCalls = <<>>
    /\ diagLines = 0
    /\ attempts = 0
    /\ errAt = ""
    /\ outcome = "none"
    /\ prevOutcome = "none"
    /\ hPc = "idle"
    /\ hOp = ""
    /\ hVideo = NoVideo
    /\ hThreshold = 0
    /\ cap = "none"
    /\ hRead = 0
    /\ hFrame = <<>>
    /\ color_analysis = <<>>
    /\ white_pixel_counts = <<>>
    /\ black_pixel_counts = <<>>
    /\ frame_brightness = <<>>
    /\ hExit = "running"

\* the client: chat_loop and process_query
Spec == Init /\ [][ClientNext]_vars

\* the text helpers on generated queries
SpecText == Init /\ [][TextNext]_vars

\* the Tool Host operations on generated files
SpecHost == Init /\ [][HostNext]_vars

-----------------------------------------------------------------------------
(* Claims about the client *)

IsPrefix(a, b) == Len(a) <= Len(b) /\ SubSeq(b, 1, Len(a)) = a

\* a published video tool was selected by the first response
VideoToolSelected ==
    /\ ToolSelected(firstResp)
    /\ firstResp.tool_calls[1].name \in PublishedTools

\* C1: while one query is handled the Tool Host is invoked at most once, and
\* exactly one tool result has been obtained when the second gateway call is
\* issued.
C1_AtMostOneToolCall ==
    /\ Len(toolCalls) <= 1
    /\ Len(gatewayCalls) = 2 => Len(toolReplies) = 1

\* C2: an exception raised at any step of a cycle reaches chat_loop's handler,
\* which prints one diagnostic line; process_query ran once for that query,
\* the loop is back at reading input, only "quit" ends it, and the query
\* after a failed one starts from a single user turn holding its own text.
C2_FailedCycleIsContained ==
    /\ errAt # "" => pc \in {"except", "input"}
    /\ pc = "except" => (diagLines = 0 /\ attempts = 1 /\ errAt # "")
    /\ outcome = "error" => (pc = "input" /\ diagLines = 1 /\ attempts = 1)
    /\ pc = "exit" => LowerStr(query) = <<"q", "u", "i", "t">>
    /\ (pc = "list_tools" /\ prevOutcome = "error")
          => messages = <<UserTurn(query)>>

\* the query after a failed one has entered process_query
C2_Witness ==
    /\ pc = "list_tools"
    /\ prevOutcome = "error"
    /\ attempts = 1

\* C3 as stated: with a video tool selected and no path in the query, the
\* Tool Host is invoked with the null path and the cycle does not fail before
\* that call.
C3_NullPathReachesToolHost ==
    (VideoToolSelected /\ video_path = NoneVal /\ pc = "except")
        => /\ toolCalls # <<>>
           /\ toolCalls[1].args.path = NoneVal
           /\ errAt # "encode_image"

\* C3 amended: with a video tool selected and no path in the query, the cycle
\* fails inside process_query at encode_image, and the Tool Host is not
\* invoked for that query.
C3_NullPathFailsAtEncoding ==
    (VideoToolSelected /\ video_path = NoneVal)
        => /\ toolCalls = <<>>
           /\ errAt = "encode_image"
           /\ pc \in {"except", "input"}

\* a cycle with a video tool and a query without a path has failed
C3_Witness ==
    /\ VideoToolSelected
    /\ video_path = NoneVal
    /\ outcome = "error"

\* C4: the enriched user turn is appended only when the payload of the video
\* tool's reply has no error key.
C4_NoEnrichedTurnOnErrorPayload ==
    (video_result.content # <<>> /\ video_result.content[1] = ErrorJson)
        => \A i \in DOMAIN messages : messages[i].media = <<>>

\* C5: with a video tool selected, every Tool Host invocation of the query
\* carries the path extracted from the query text, and for the binarization
\* tool the model's threshold, or 127 when the model gave none.
C5_ToolCallsCarryExtractedPath ==
    VideoToolSelected =>
        \A i \in DOMAIN toolCalls :
            /\ "path" \in toolCalls[i].args.keys
            /\ toolCalls[i].args.path = extract_video_path(query)
            /\ firstResp.tool_calls[1].name = "process_video_binarization"
                  => /\ "threshold" \in toolCalls[i].args.keys
                     /\ toolCalls[i].args.threshold =
                            (IF "threshold" \in tool_args.keys
                             THEN tool_args.threshold ELSE 127)

\* C6: when the finish reason of the first response is not tool_calls,
\* process_query returns that response's text, with no Tool Host invocation,
\* one gateway call, and the conversation still the single user turn.
C6_DirectAnswer ==
    (firstResp # NoResp /\ firstResp.finish_reason # "tool_calls" /\ pc # "branch")
        => /\ pc \in {"return", "input"}
           /\ response = firstResp.content
           /\ toolCalls = <<>>
           /\ Len(gatewayCalls) = 1
           /\ gatewayCalls[1].tools
           /\ messages = <<UserTurn(query)>>
           /\ errAt = ""

\* a direct answer has been returned and printed
C6_Witness ==
    /\ outcome = "answer"
    /\ firstResp.finish_reason = "stop"
    /\ response = "direct answer"

\* the four turns C7 expects in the second gateway call
C7_ExpectedTurns ==
    LET first == toolReplies[1]
        last  == toolReplies[Len(toolReplies)]
        params == IF first.content # <<>>
                  THEN json_loads_reply(first.content[1]).value
                  ELSE NoParams
    IN  << UserTurn(query),
           [BlankTurn EXCEPT
               !.role = "user",
               !.media = <<"base64">> \o extract_video_path(query),
               !.question = extract_text_question(query),
               !.summary = Summary(firstResp.tool_calls[1].name, params)],
           AssistantTurn(firstResp),
           [BlankTurn EXCEPT
               !.role = "tool",
               !.text = last.content[1],
               !.tool_call_id = firstResp.tool_calls[1].id] >>

\* C7: within a cycle the conversation only grows by appending, and with a
\* published tool selected the second gateway call carries no tool manifest
\* and exactly: the user turn, the enriched user turn, the assistant's
\* tool-call turn, and the tool-result turn (first content item of the reply
\* to the call made with the model's arguments, id of the first tool call).
C7_ConversationOrder ==
    /\ []((VideoToolSelected /\ Len(gatewayCalls) = 2)
            => gatewayCalls[2] = [messages |-> C7_ExpectedTurns, tools |-> FALSE])
    /\ [][pc # "process_query" => IsPrefix(messages, messages')]_vars

\* a cycle with a published tool has completed with its final answer
C7_Witness ==
    /\ VideoToolSelected
    /\ Len(gatewayCalls) = 2
    /\ Len(messages) = 4
    /\ outcome = "answer"

-----------------------------------------------------------------------------
(* Claims about the text helpers *)

\* the query with the span of the extracted path removed, then trimmed
RemovePath(q, p) ==
    LET starts == { i \in 1..Len(q) :
                      /\ i + Len(p) - 1 <= Len(q)
                      /\ SubSeq(q, i, i + Len(p) - 1) = p }
        i == SetMin(starts)
    IN  Strip(SubSeq(q, 1, i - 1) \o SubSeq(q, i + Len(p), Len(q)))

OrDefault(t) == IF t = <<>> THEN DefaultQuestion ELSE t

\* C9: the question is the query with the extracted path removed and trimmed,
\* and the full trimmed query when no path was extracted; the default
\* question stands in when nothing remains.
C9_QuestionConsistentWithPath ==
    tPc = "done" =>
        tQuestion = IF tPath = NoneVal
                    THEN OrDefault(Strip(tQuery))
                    ELSE OrDefault(RemovePath(tQuery, tPath))

-----------------------------------------------------------------------------
(* Claims about the Tool Host *)

\* C8: no execution of an operation returns or raises with an opened handle
\* still unreleased.
C8_HandleReleasedOnExit == hPc = "done" => cap # "open"

\* pixels of frame i whose luminance satisfies the given test
PixelsAtLeast(i) ==
    Cardinality({ p \in DOMAIN hVideo.frames[i] :
                    Gray(hVideo.frames[i][p]) >= hThreshold })

PixelsAbove(i) ==
    Cardinality({ p \in DOMAIN hVideo.frames[i] :
                    Gray(hVideo.frames[i][p]) > hThreshold })

\* C10 as stated: the white count of a frame is the number of pixels with
\* luminance >= threshold, the black count the rest, and they sum to
\* width x height.
C10_WhiteIsAtLeastThreshold ==
    \A i \in DOMAIN white_pixel_counts :
        /\ white_pixel_counts[i] = PixelsAtLeast(i)
        /\ black_pixel_counts[i] = hVideo.width * hVideo.height - PixelsAtLeast(i)
        /\ white_pixel_counts[i] + black_pixel_counts[i] = hVideo.width * hVideo.height

\* C10 amended: the white count of a frame is the number of pixels with
\* luminance strictly greater than the threshold, the black count the rest,
\* and they sum to width x height.
C10_WhiteIsAboveThreshold ==
    /\ Len(black_pixel_counts) = Len(white_pixel_counts)
    /\ \A i \in DOMAIN white_pixel_counts :
        /\ white_pixel_counts[i] = PixelsAbove(i)
        /\ black_pixel_counts[i] = hVideo.width * hVideo.height - PixelsAbove(i)
        /\ white_pixel_counts[i] + black_pixel_counts[i] = hVideo.width * hVideo.height

\* a frame holding a pixel whose luminance equals the threshold was counted
C10_Witness ==
    /\ hOp = "video_binarization"
    /\ \E i \in DOMAIN white_pixel_counts :
          \E p \in DOMAIN hVideo.frames[i] :
              Gray(hVideo.frames[i][p]) = hThreshold
====
